---- MODULE Spec2Model ----
(***************************************************************************)
(* Model of package crdt (crdt.go): the reflective merge engine, its       *)
(* entry points Merge and Join, and the decreasingInt Merger of            *)
(* crdt_test.go.                                                           *)
(*                                                                         *)
(* Go types are named by strings.  A value of a scalar type is a TLA+      *)
(* value (BOOLEAN, Int, a sequence of bytes for a string); a struct is a   *)
(* record; a map is [nil, m] where nil tells the nil map from the empty    *)
(* map (reflect.DeepEqual tells them apart) and m is the function from     *)
(* its keys to its values.  Floats are not modelled.  The value-level      *)
(* merge is used wherever only contents matter; the last section models    *)
(* maps as references to objects on a heap, where sharing can be seen.     *)
(***************************************************************************)
EXTENDS Integers, Sequences, FiniteSets, TLC

VARIABLES
    ty,       \* the type of the caller's variable y
    y,        \* the caller's variable: the target of Merge, the first input of Join
    pre,      \* the value of y before the last call
    call,     \* the last call: [fn, aPtr, tb]
    src,      \* the second argument of the last call
    outcome,  \* "none", "returned" or "panic" for the last call
    ret,      \* what the last call returned: <<>> or <<value>>
    va, vb, vc,  \* three values of type ty, the inputs of the Join compositions
    jn,       \* the results of the Join compositions computed so far
    pc,       \* which compositions have been computed: "args", "pairs", "nested", or "off"
    upd,      \* the set of update values sent to the two replicas
    rep,      \* the value of each replica
    seen,     \* the updates each replica has merged
    heap,     \* the map objects: address -> [m: key -> int or address of a map, 0 for nil]
    hv,       \* the caller's map variables: variable -> address, 0 for the nil map
    frozen,   \* the variables whose value was an input of a call and not a target since
    snap,     \* the contents of each frozen variable when it was first an input
    last,     \* the last call on the heap: [fn, target, replaced]
    lastRet   \* what the last Merge on the heap returned

callVars == <<y, pre, call, src, outcome, ret>>
lawVars == <<va, vb, vc, jn, pc>>
repVars == <<upd, rep, seen>>
heapVars == <<heap, hv, frozen, snap, last, lastRet>>
vars == <<ty, callVars, lawVars, repVars, heapVars>>

\* Bound of the model: the greatest integer.
MaxInt == 1

\* The types the model instantiates the engine with.
Types == {"bool", "int", "uint", "string", "decreasingInt", "A", "mapInt", "mapMap", "mapA"}

\* reflect.Kind of each type.
Kind(T) ==
    CASE T = "bool" -> "Bool"
      [] T = "int" -> "Int"
      [] T = "uint" -> "Uint"
      [] T = "string" -> "String"
      [] T = "decreasingInt" -> "Int"
      [] T = "A" -> "Struct"
      [] T = "mapInt" -> "Map"
      [] T = "mapMap" -> "Map"
      [] T = "mapA" -> "Map"

\* Element type of the map types: map[int]int, map[int]map[int]int and
\* map[int]A.
Elem(T) ==
    CASE T = "mapInt" -> "int"
      [] T = "mapMap" -> "mapInt"
      [] T = "mapA" -> "A"

\* Fields of struct A of TestMergeStruct, in declaration order, and their types.
FieldNames(T) == <<"I", "J">>
FieldType(T, f) == IF f = "I" THEN "int" ELSE "string"

\* Keys of the values of mapInt; the values of mapMap, their inner maps
\* and the values of mapA have the one key.
Keys == {1, 2}
InnerKeys == {1}

\* A signed integer type: one more negative value than positive ones.
Ints == (0 - MaxInt - 1)..MaxInt

\* The strings of TestMergeStruct: "", "a", "aa", "b" (1 for a, 2 for b).
Strings == {<<>>, <<1>>, <<1, 1>>, <<2>>}

EmptyFcn == [k \in {} |-> 0]
NilMap == [nil |-> TRUE, m |-> EmptyFcn]
EmptyMap == [nil |-> FALSE, m |-> EmptyFcn]

MapsOver(K, V) ==
    {NilMap} \cup {[nil |-> FALSE, m |-> f] : f \in UNION {[D -> V] : D \in SUBSET K}}

InnerMaps == MapsOver(InnerKeys, Ints)

\* The values of each type within the bounds.
Values(T) ==
    CASE T = "bool" -> BOOLEAN
      [] T = "int" -> Ints
      [] T = "uint" -> 0..MaxInt
      [] T = "string" -> Strings
      [] T = "decreasingInt" -> Ints
      [] T = "A" -> [I : Ints, J : Strings]
      [] T = "mapInt" -> MapsOver(Keys, Ints)
      [] T = "mapMap" -> MapsOver(InnerKeys, InnerMaps)
      [] T = "mapA" -> MapsOver(InnerKeys, [I : Ints, J : Strings])

\* reflect.New(t).Elem(): the zero value of a type.
Zero(T) ==
    CASE Kind(T) = "Bool" -> FALSE
      [] Kind(T) = "Int" -> 0
      [] Kind(T) = "Uint" -> 0
      [] Kind(T) = "String" -> <<>>
      [] Kind(T) = "Struct" -> [I |-> 0, J |-> <<>>]
      [] Kind(T) = "Map" -> NilMap

isOrdered(kind) == kind \in {"Bool", "Int", "Uint", "String"}

\* Go's > on strings: bytewise lexicographic, a proper prefix is smaller.
RECURSIVE StrGreater(_, _)
StrGreater(s, t) ==
    IF s = <<>> THEN FALSE
    ELSE IF t = <<>> THEN TRUE
    ELSE IF Head(s) # Head(t) THEN Head(s) > Head(t)
    ELSE StrGreater(Tail(s), Tail(t))

\* Variant of greater that also holds of equal values.
greaterOrEqual(kind, a, b) == a = b \/
    CASE kind = "Bool" -> a /\ ~b
      [] kind = "Int" -> a > b
      [] kind = "Uint" -> a > b
      [] kind = "String" -> StrGreater(a, b)

\* greater returns true if a > b.
greater(kind, a, b) ==
    CASE kind = "Bool" -> a /\ ~b
      [] kind = "Int" -> a > b
      [] kind = "Uint" -> a > b
      [] kind = "String" -> StrGreater(a, b)

\* Variant of HasMerger that never finds a Merger.
HasMergerNever(T) == FALSE

\* Whether *T implements Merger.
HasMerger(T) == T = "decreasingInt"

\* (*decreasingInt).Merge: keeps the smaller value.
decreasingIntMerge(i, other) ==
    IF other < i THEN [v |-> other, ch |-> TRUE] ELSE [v |-> i, ch |-> FALSE]

\* The scalar branch of merge: a is set to b when b is greater.
mergeOrdered(kind, a, b) ==
    IF greater(kind, b, a) THEN [v |-> b, ch |-> TRUE] ELSE [v |-> a, ch |-> FALSE]

\* merge(a, b) for a of type T: v is the value of a afterwards, ch the
\* returned flag.
RECURSIVE merge(_, _, _)

RECURSIVE mergeFields(_, _, _, _, _)

\* Variant of mergeFields whose flag is the last field's alone.
mergeFieldsLastFlag(T, a, b, i, ch) ==
    IF i > Len(FieldNames(T)) THEN [v |-> a, ch |-> ch]
    ELSE LET f == FieldNames(T)[i]
             r == merge(FieldType(T, f), a[f], b[f])
         IN mergeFields(T, [a EXCEPT ![f] = r.v], b, i + 1, r.ch)

\* Variant of mergeFields that stops at the first field that changed.
mergeFieldsStopEarly(T, a, b, i, ch) ==
    IF i > Len(FieldNames(T)) \/ ch THEN [v |-> a, ch |-> ch]
    ELSE LET f == FieldNames(T)[i]
             r == merge(FieldType(T, f), a[f], b[f])
         IN mergeFields(T, [a EXCEPT ![f] = r.v], b, i + 1, ch \/ r.ch)

\* The struct branch from field i on (1-based), ch being the flag so far.
mergeFields(T, a, b, i, ch) ==
    IF i > Len(FieldNames(T)) THEN [v |-> a, ch |-> ch]
    ELSE LET f == FieldNames(T)[i]
             r == merge(FieldType(T, f), a[f], b[f])
         IN mergeFields(T, [a EXCEPT ![f] = r.v], b, i + 1, ch \/ r.ch)

\* The map branch for one key of b that a holds: the scratch value is the
\* zero value merged with a's entry, then with b's entry; ch is the flag
\* of the second merge alone.
mergeEntry(E, aValue, bValue) ==
    LET newValue == merge(E, Zero(E), aValue).v
    IN merge(E, newValue, bValue)

\* The map branch.  Each key of b touches only its own entry of a, so the
\* loop over b.MapKeys() is the same in every iteration order.
mergeMap(T, a, b) ==
    LET E == Elem(T)
        both == DOMAIN a.m \cap DOMAIN b.m
        merged == [k \in both |-> mergeEntry(E, a.m[k], b.m[k])]
        m2 == [k \in DOMAIN a.m \cup DOMAIN b.m |->
                 IF k \notin DOMAIN b.m THEN a.m[k]
                 ELSE IF k \notin DOMAIN a.m THEN b.m[k]
                 ELSE IF merged[k].ch THEN merged[k].v ELSE a.m[k]]
    IN [v |-> [nil |-> a.nil /\ b.nil, m |-> m2],
        ch |-> (DOMAIN b.m \ DOMAIN a.m # {}) \/ (\E k \in both : merged[k].ch)]

merge(T, a, b) ==
    IF HasMerger(T) THEN decreasingIntMerge(a, b)
    ELSE IF Kind(T) = "Struct" THEN mergeFields(T, a, b, 1, FALSE)
    ELSE IF Kind(T) = "Map" THEN mergeMap(T, a, b)
    ELSE mergeOrdered(Kind(T), a, b)

\* join(a, b): a fresh zero value merged with a, then with b.
join(T, a, b) ==
    LET value == merge(T, Zero(T), a).v
    IN merge(T, value, b).v

\* Variant of MergePanics without the pointer check.
MergePanicsNoPtrCheck(aPtr, ta, tb) ==
    IF ta # tb THEN "a and &b must be the same type" ELSE ""

\* The checks of Merge before it calls merge: "" or the panic's message.
MergePanics(aPtr, ta, tb) ==
    IF ~aPtr THEN "a must be a pointer"
    ELSE IF ta # tb THEN "a and &b must be the same type"
    ELSE ""

\* The check of Join before it calls join.
JoinPanics(ta, tb) == IF ta # tb THEN "a and b must be the same type" ELSE ""

\* The variables of the calls on y, unused.
CallsIdle ==
    /\ y = 0
    /\ pre = 0
    /\ call = [fn |-> "none", aPtr |-> TRUE, tb |-> ty]
    /\ src = 0
    /\ outcome = "none"
    /\ ret = <<>>

\* The variables of the Join compositions, unused.
LawsIdle ==
    /\ va = 0
    /\ vb = 0
    /\ vc = 0
    /\ jn = <<>>
    /\ pc = "off"

\* The variables of the replicas, unused.
ReplicasIdle ==
    /\ upd = {}
    /\ rep = <<>>
    /\ seen = <<>>

\* The variables of the heap, unused.
HeapIdle ==
    /\ heap = <<>>
    /\ hv = <<>>
    /\ frozen = {}
    /\ snap = <<>>
    /\ last = [fn |-> "none", target |-> 0, replaced |-> {}]
    /\ lastRet = FALSE

Init ==
    /\ ty \in Types
    /\ y \in Values(ty)
    /\ pre = y
    /\ call = [fn |-> "none", aPtr |-> TRUE, tb |-> ty]
    /\ src = y
    /\ outcome = "none"
    /\ ret = <<>>
    /\ LawsIdle
    /\ ReplicasIdle
    /\ HeapIdle

\* Merge(&y, x) when aPtr, Merge(y, x) otherwise, x of type tb.  A panic
\* ends the program.
Merge(aPtr, tb, x) ==
    /\ outcome # "panic"
    /\ pre' = y
    /\ call' = [fn |-> "Merge", aPtr |-> aPtr, tb |-> tb]
    /\ src' = x
    /\ IF MergePanics(aPtr, ty, tb) # ""
       THEN /\ outcome' = "panic"
            /\ ret' = <<>>
            /\ y' = y
       ELSE LET r == merge(ty, y, x)
            IN /\ outcome' = "returned"
               /\ ret' = <<r.ch>>
               /\ y' = r.v
    /\ UNCHANGED <<ty, lawVars, repVars, heapVars>>

\* Join(y, x), x of type tb.
Join(tb, x) ==
    /\ outcome # "panic"
    /\ pre' = y
    /\ call' = [fn |-> "Join", aPtr |-> FALSE, tb |-> tb]
    /\ src' = x
    /\ IF JoinPanics(ty, tb) # ""
       THEN /\ outcome' = "panic"
            /\ ret' = <<>>
       ELSE /\ outcome' = "returned"
            /\ ret' = <<join(ty, y, x)>>
    /\ UNCHANGED <<ty, y, lawVars, repVars, heapVars>>

Next ==
    \/ \E aPtr \in BOOLEAN, tb \in Types : \E x \in Values(tb) : Merge(aPtr, tb, x)
    \/ \E tb \in Types : \E x \in Values(tb) : Join(tb, x)

Spec == Init /\ [][Next]_vars

\* ---- Properties of the calls on y ----

MergeReturned == call.fn = "Merge" /\ outcome = "returned"

\* A value with the nil maps in it taken for empty maps.
RECURSIVE Contents(_, _)
Contents(T, v) ==
    IF Kind(T) = "Map"
    THEN [nil |-> FALSE, m |-> [k \in DOMAIN v.m |-> Contents(Elem(T), v.m[k])]]
    ELSE v

Max(i, j) == IF i > j THEN i ELSE j

IdempotentMerge ==
    /\ [](MergeReturned /\ pre = src => ret = <<FALSE>> /\ y = src)
    /\ [][MergeReturned /\ MergeReturned' /\ src' = src
            => ret' = <<FALSE>> /\ y' = y]_vars

\* A nested map with a negative entry merged into an equal target.
EqualNestedMerged ==
    /\ MergeReturned
    /\ ty = "mapMap"
    /\ pre = src
    /\ \E k \in DOMAIN src.m : \E i \in DOMAIN src.m[k].m : src.m[k].m[i] < 0
    /\ y = src
    /\ ret = <<FALSE>>

\* C7: after Merge(&a, b) on map[int]int the keys of a are those of a and b
\* before; a key of b alone holds b's value, a key of a alone its prior
\* value, a key of both the maximum of the two; and Merge returns true
\* exactly when a key was inserted or an entry replaced.
MapKeywiseMax ==
    MergeReturned /\ ty = "mapInt" =>
        /\ DOMAIN y.m = DOMAIN pre.m \cup DOMAIN src.m
        /\ \A k \in DOMAIN src.m \ DOMAIN pre.m : y.m[k] = src.m[k]
        /\ \A k \in DOMAIN pre.m \ DOMAIN src.m : y.m[k] = pre.m[k]
        /\ \A k \in DOMAIN pre.m \cap DOMAIN src.m : y.m[k] = Max(pre.m[k], src.m[k])
        /\ ret[1] <=> \/ DOMAIN src.m \ DOMAIN pre.m # {}
                      \/ \E k \in DOMAIN pre.m : y.m[k] # pre.m[k]

\* C8: on decreasingInt, Merge does what (*decreasingInt).Merge does and
\* nothing else: y changes, and true is returned, only when the source is
\* smaller than y, and y is then the source.
CustomMergeOverrides ==
    MergeReturned /\ ty = "decreasingInt" =>
        /\ ret[1] <=> src < pre
        /\ y = (IF src < pre THEN src ELSE pre)
        /\ y = decreasingIntMerge(pre, src).v
        /\ ret[1] = decreasingIntMerge(pre, src).ch

\* A greater source merged into a decreasingInt: nothing changes.
GreaterSourceIgnored ==
    /\ MergeReturned
    /\ ty = "decreasingInt"
    /\ src > pre
    /\ y = pre
    /\ ret = <<FALSE>>

\* C10: Merge with a target that is no pointer or a source of another type,
\* and Join with inputs of two types, panic: y keeps its value and nothing
\* is returned.
MismatchIsFatal ==
    (\/ call.fn = "Merge" /\ (~call.aPtr \/ call.tb # ty)
     \/ call.fn = "Join" /\ call.tb # ty)
    => outcome = "panic" /\ y = pre /\ ret = <<>>

\* Merge(&y, x) with y a decreasingInt and x an int of another value: the
\* panic, and no conversion of x.
IntIntoDecreasingIntPanics ==
    /\ call.fn = "Merge"
    /\ call.aPtr
    /\ ty = "decreasingInt"
    /\ call.tb = "int"
    /\ src < pre
    /\ outcome = "panic"
    /\ y = pre

\* ---- Join compositions on three inputs ----

\* The types whose merge the engine derives: no Merger.
StructuralTypes == {T \in Types : ~HasMerger(T)}

InitLaws ==
    /\ ty \in StructuralTypes
    /\ va \in Values(ty)
    /\ vb \in Values(ty)
    /\ vc \in Values(ty)
    /\ jn = <<>>
    /\ pc = "args"
    /\ CallsIdle
    /\ ReplicasIdle
    /\ HeapIdle

\* Join(va, vb), Join(vb, va), Join(vb, vc) and Join(va, zero).
JoinPairs ==
    /\ pc = "args"
    /\ jn' = [ab |-> join(ty, va, vb), ba |-> join(ty, vb, va),
              bc |-> join(ty, vb, vc), az |-> join(ty, va, Zero(ty))]
    /\ pc' = "pairs"
    /\ UNCHANGED <<ty, va, vb, vc, callVars, repVars, heapVars>>

\* Join(Join(va, vb), vc) and Join(va, Join(vb, vc)).
JoinNested ==
    /\ pc = "pairs"
    /\ jn' = [ab |-> jn.ab, ba |-> jn.ba, bc |-> jn.bc, az |-> jn.az,
              ab_c |-> join(ty, jn.ab, vc), a_bc |-> join(ty, va, jn.bc)]
    /\ pc' = "nested"
    /\ UNCHANGED <<ty, va, vb, vc, callVars, repVars, heapVars>>

NextLaws == JoinPairs \/ JoinNested

SpecLaws == InitLaws /\ [][NextLaws]_vars

\* C2: Join(va, vb) equals Join(vb, va).
JoinCommutes == pc \in {"pairs", "nested"} => jn.ab = jn.ba

\* C3: Join(va, zero) equals va.
ZeroIsBottom == pc \in {"pairs", "nested"} => jn.az = va

\* C6: Join(Join(va, vb), vc) equals Join(va, Join(vb, vc)).
JoinAssociates == pc = "nested" => jn.ab_c = jn.a_bc

\* Three maps, with a negative entry, of which two do not commute and two
\* join to a third value, joined both ways.
MapsJoinedBothWays ==
    /\ pc = "nested"
    /\ ty = "mapInt"
    /\ jn.ab # jn.ba
    /\ jn.bc # vb
    /\ jn.bc # vc
    /\ \E k \in DOMAIN va.m : va.m[k] < 0
    /\ jn.ab_c = jn.a_bc

\* ---- Two replicas merging the same updates ----

MaxUpdates == 2

\* The subsets of S of at most n elements.
RECURSIVE SubsetsUpTo(_, _)
SubsetsUpTo(S, n) ==
    IF n = 0 THEN {{}}
    ELSE LET P == SubsetsUpTo(S, n - 1)
         IN P \cup {U \cup {x} : U \in P, x \in S}

InitReplicas ==
    /\ ty \in StructuralTypes
    /\ upd \in SubsetsUpTo(Values(ty), MaxUpdates)
    /\ rep = [r \in {1, 2} |-> Zero(ty)]
    /\ seen = [r \in {1, 2} |-> {}]
    /\ CallsIdle
    /\ LawsIdle
    /\ HeapIdle

\* Replica r merges update u: Merge(&rep[r], u).
Apply(r, u) ==
    /\ rep' = [rep EXCEPT ![r] = merge(ty, rep[r], u).v]
    /\ seen' = [seen EXCEPT ![r] = seen[r] \cup {u}]
    /\ UNCHANGED <<ty, upd, callVars, lawVars, heapVars>>

NextReplicas == \E r \in {1, 2}, u \in upd : Apply(r, u)

SpecReplicas == InitReplicas /\ [][NextReplicas]_vars

\* C1: two replicas that started from the zero value and have each merged
\* every update at least once, in any order, hold equal values.
ReplicasConverge == seen[1] = upd /\ seen[2] = upd => rep[1] = rep[2]

\* ---- Maps as references: map[int]map[int]int on a heap ----
\*
\* A Go map value is a reference to a map object.  heap holds the objects;
\* a map value is the address of its object, 0 for the nil map.  An entry of
\* a mapMap object is the address of a mapInt object (or 0), an entry of a
\* mapInt object is an int.

HVars == {1, 2, 3}

Min(S) == CHOOSE i \in S : \A j \in S : i <= j

\* A fresh address.
NewAddr(h) == Min((1..(Cardinality(DOMAIN h) + 1)) \ DOMAIN h)

\* reflect.MakeMap: a new empty map object.
MakeMap(h) ==
    LET n == NewAddr(h)
    IN [h |-> [o \in DOMAIN h \cup {n} |-> IF o = n THEN EmptyFcn ELSE h[o]], v |-> n]

\* a.SetMapIndex(key, value) on the object at address o.
SetMapIndex(h, o, key, value) ==
    [h EXCEPT ![o] = [k \in DOMAIN h[o] \cup {key} |-> IF k = key THEN value ELSE h[o][k]]]

\* b.MapKeys(): none for the nil map.
MapKeys(h, b) == IF b = 0 THEN {} ELSE DOMAIN h[b]

\* merge(a, b) on the heap h, a and b being the values of two variables of
\* type T: h is the heap afterwards, v the value of a, ch the returned flag.
RECURSIVE mergeH(_, _, _, _)

\* Variant of scratchValue that sets the scratch to a's entry itself.
scratchAlias(E, h, aValue) == [h |-> h, v |-> aValue, ch |-> FALSE]

\* newValue := reflect.New(aValue.Type()).Elem(); merge(newValue, aValue).
scratchValue(E, h, aValue) == mergeH(E, h, 0, aValue)

\* The loop over the keys ks of b still to visit, in ascending order (the
\* order decides only which addresses the new objects get).
RECURSIVE mergeKeysH(_, _, _, _, _, _)
mergeKeysH(T, h, a, b, ks, ch) ==
    IF ks = {} THEN [h |-> h, v |-> a, ch |-> ch]
    ELSE LET key == Min(ks)
             E == Elem(T)
             bValue == h[b][key]
         IN IF key \in DOMAIN h[a]
            THEN LET newValue == scratchValue(E, h, h[a][key])
                     r == mergeH(E, newValue.h, newValue.v, bValue)
                 IN IF r.ch
                    THEN mergeKeysH(T, SetMapIndex(r.h, a, key, r.v), a, b, ks \ {key}, TRUE)
                    ELSE mergeKeysH(T, r.h, a, b, ks \ {key}, ch)
            ELSE mergeKeysH(T, SetMapIndex(h, a, key, bValue), a, b, ks \ {key}, TRUE)

mergeH(T, h, a, b) ==
    IF Kind(T) = "Map"
    THEN LET made == IF a = 0 /\ b # 0 THEN MakeMap(h) ELSE [h |-> h, v |-> a]
         IN mergeKeysH(T, made.h, made.v, b, MapKeys(h, b), FALSE)
    ELSE LET r == mergeOrdered(Kind(T), a, b)
         IN [h |-> h, v |-> r.v, ch |-> r.ch]

\* join(a, b) on the heap.
joinH(T, h, a, b) ==
    LET r == mergeH(T, h, 0, a)
    IN mergeH(T, r.h, r.v, b)

\* The value a map variable holds: what reflect.DeepEqual compares.
RECURSIVE Deref(_, _, _)
Deref(T, h, v) ==
    IF Kind(T) = "Map"
    THEN IF v = 0 THEN NilMap
         ELSE [nil |-> FALSE, m |-> [k \in DOMAIN h[v] |-> Deref(Elem(T), h, h[v][k])]]
    ELSE v

\* The keys of S in ascending order.
RECURSIVE SortedKeys(_)
SortedKeys(S) == IF S = {} THEN <<>> ELSE <<Min(S)>> \o SortedKeys(S \ {Min(S)})

\* The addresses the variables reach, in the order of the variables and of
\* the keys.
RECURSIVE Visit(_, _, _)
Visit(h, vs, i) ==
    IF i > Len(vs) THEN <<>>
    ELSE IF vs[i] = 0 THEN Visit(h, vs, i + 1)
    ELSE LET ks == SortedKeys(DOMAIN h[vs[i]])
             entries == [p \in 1..Len(ks) |-> h[vs[i]][ks[p]]]
         IN <<vs[i]>> \o SelectSeq(entries, LAMBDA o : o # 0) \o Visit(h, vs, i + 1)

\* The heap after a call: the objects no variable reaches are dropped (the
\* garbage collector's work) and the others are numbered in the order of
\* Visit, addresses having no meaning of their own.  ren maps the old
\* addresses of the kept objects to the new ones.
Live(h, vs) ==
    LET seq == Visit(h, vs, 1)
        kept == {seq[p] : p \in 1..Len(seq)}
        top == {vs[i] : i \in 1..Len(vs)} \ {0}
        first(o) == Min({p \in 1..Len(seq) : seq[p] = o})
        ren == [o \in kept \cup {0} |->
                  IF o = 0 THEN 0 ELSE Cardinality({seq[q] : q \in 1..first(o)})]
        old(n) == CHOOSE o \in kept : ren[o] = n
    IN [h |-> [n \in 1..Cardinality(kept) |->
                 IF old(n) \in top
                 THEN [k \in DOMAIN h[old(n)] |-> ren[h[old(n)][k]]]
                 ELSE h[old(n)]],
        vs |-> [i \in 1..Len(vs) |-> ren[vs[i]]],
        ren |-> ren]

\* The heap with a variable holding the mapMap value val on fresh objects.
RECURSIVE StoreEntries(_, _, _, _)
StoreEntries(h, o, val, ks) ==
    IF ks = {} THEN h
    ELSE LET key == Min(ks)
             in == val.m[key]
             i == IF in.nil THEN [h |-> h, v |-> 0] ELSE MakeMap(h)
             h2 == IF in.nil THEN h ELSE [i.h EXCEPT ![i.v] = in.m]
         IN StoreEntries(SetMapIndex(h2, o, key, i.v), o, val, ks \ {key})

Store(h, val) ==
    IF val.nil THEN [h |-> h, v |-> 0]
    ELSE LET top == MakeMap(h)
         IN [h |-> StoreEntries(top.h, top.v, val, DOMAIN val.m), v |-> top.v]

InitHeap ==
    /\ ty = "mapMap"
    /\ \E v1, v2 \in Values(ty) :
          LET s1 == Store(EmptyFcn, v1)
              s2 == Store(s1.h, v2)
              lv == Live(s2.h, <<s1.v, s2.v, 0>>)
          IN /\ heap = lv.h
             /\ hv = lv.vs
    /\ frozen = {}
    /\ snap = [i \in HVars |-> NilMap]
    /\ last = [fn |-> "none", target |-> 0, replaced |-> {}]
    /\ lastRet = FALSE
    /\ CallsIdle
    /\ LawsIdle
    /\ ReplicasIdle

\* The contents of an input are recorded when it is first one; snap holds
\* the nil map for the variables that are not frozen.
Freeze(ins, t) ==
    [i \in HVars |->
        IF i = t THEN NilMap
        ELSE IF i \in ins \ frozen THEN Deref(ty, heap, hv[i])
        ELSE snap[i]]

\* Merge(&hv[t], hv[s]).
MergeH(t, s) ==
    /\ t # s
    /\ LET r == mergeH(ty, heap, hv[t], hv[s])
           lv == Live(r.h, [hv EXCEPT ![t] = r.v])
           before == IF hv[t] = 0 THEN {} ELSE {heap[hv[t]][k] : k \in DOMAIN heap[hv[t]]}
           after == {r.h[r.v][k] : k \in MapKeys(r.h, r.v)}
       IN /\ hv' = lv.vs
          /\ heap' = lv.h
          /\ lastRet' = r.ch
          /\ last' = [fn |-> "Merge", target |-> t,
                      replaced |-> {lv.ren[o] : o \in ((before \ after) \ {0}) \cap DOMAIN lv.ren}]
    /\ snap' = Freeze({s}, t)
    /\ frozen' = (frozen \cup {s}) \ {t}
    /\ UNCHANGED <<ty, callVars, lawVars, repVars>>

\* hv[t] = Join(hv[i], hv[j]).
JoinH(t, i, j) ==
    /\ LET r == joinH(ty, heap, hv[i], hv[j])
           lv == Live(r.h, [hv EXCEPT ![t] = r.v])
       IN /\ hv' = lv.vs
          /\ heap' = lv.h
    /\ lastRet' = FALSE
    /\ last' = [fn |-> "Join", target |-> t, replaced |-> {}]
    /\ snap' = Freeze({i, j}, t)
    /\ frozen' = (frozen \cup {i, j}) \ {t}
    /\ UNCHANGED <<ty, callVars, lawVars, repVars>>

NextHeap ==
    \/ \E t, s \in HVars : MergeH(t, s)
    \/ \E t, i, j \in HVars : JoinH(t, i, j)

SpecHeap == InitHeap /\ [][NextHeap]_vars

\* The merge on the heap and the merge on values agree on the contents of
\* the target and on the flag, and so do the two joins.
HeapAgreesWithValues ==
    [][/\ \A t, s \in HVars : MergeH(t, s) =>
            LET r == merge(ty, Deref(ty, heap, hv[t]), Deref(ty, heap, hv[s]))
            IN Deref(ty, heap', hv'[t]) = r.v /\ lastRet' = r.ch
       /\ \A t, i, j \in HVars : JoinH(t, i, j) =>
            Deref(ty, heap', hv'[t])
                = join(ty, Deref(ty, heap, hv[i]), Deref(ty, heap, hv[j]))]_vars

\* C9: a value that was an input of Join or the source of Merge, with the
\* maps in it, holds the contents it had then for as long as it is not the
\* target of a call.
InputsNotMutated == \A i \in frozen : Deref(ty, heap, hv[i]) = snap[i]

\* A Merge replaced an entry of its target that was a map shared with a
\* variable that had been an input.
SharedEntryReplaced ==
    /\ last.fn = "Merge"
    /\ lastRet
    /\ \E i \in frozen \ {last.target} :
          /\ hv[i] # 0
          /\ \E k \in DOMAIN heap[hv[i]] : heap[hv[i]][k] \in last.replaced

====
